---- MODULE Spec2Model ----
(***************************************************************************)
(* Model of heredity.py: exact inference over a pedigree by enumeration.   *)
(*                                                                         *)
(* Python floats are modelled as exact rationals [num, den] whose parts    *)
(* are natural numbers of arbitrary size (little-endian limb sequences),   *)
(* so every statement below is about the real-number value the code        *)
(* computes, not about its rounding.                                       *)
(*                                                                         *)
(* Python values: None is the string "None", True / False are the strings  *)
(* "True" / "False" (a trait is one of the three), a blank CSV field is    *)
(* the empty string.                                                       *)
(***************************************************************************)
EXTENDS Integers, Sequences, FiniteSets

\* rows           the CSV file's rows, as csv.DictReader yields them
\* people         load_data's dictionary
\* probabilities  main's table of gene and trait sums per person
\* pc             where main is: "start", "have_trait" (head of the outer loop),
\*                "genes" (in the two gene loops), "print", "done", or
\*                "KeyError" (ended by the exception)
\* i, j, k        positions of the three for loops in their lists (from 1)
\* p              the joint probability last computed
\* output         the people whose distributions were printed
\* order          for each set of names, the order in which this run of the
\*                interpreter iterates its elements
\* History, not program state: world is the world last evaluated, calls the
\* number of joint_probability / update calls made, seen the worlds evaluated,
\* total the sum of the joint probabilities computed so far.
\* run            1 in the first run of main on the file, 2 in a second run
\* first          in a second run, the tables and the printed values of the first
VARIABLES rows, people, probabilities, pc, i, j, k, world, p, calls, seen, output,
          order, total, run, first

\* tictactoe.py
\* board          the board of the game being played
\* gpc            "think" (minimax is to be called) or "play"
\* best           what minimax returned for board; NoMove before it is called
VARIABLES board, gpc, best

game_vars == <<board, gpc, best>>

vars == <<rows, people, probabilities, pc, i, j, k, world, p, calls, seen, output,
          order, total, run, first, game_vars>>

\* ------------------------------------------------------------------ bounds

\* Largest well-formed population of arbitrary shape that is explored.
MaxPeople == 3

\* Most children of one couple in the explored families of two founders and
\* their children.
MaxSiblings == 2

\* Largest population with one arbitrary (possibly malformed) row.
MaxMalformed == 2

\* Limb base of the arbitrary-size naturals.
Base == 1000

\* ------------------------------------------------------------ Python values

None == "None"
True == "True"
False == "False"
Blank == ""

\* `x in s` as a Python bool
In(x, s) == IF x \in s THEN True ELSE False

\* The names a CSV may use, in row order; Ghost is a name no row has.
NameList == <<"Harry", "James", "Lily", "Ron", "Arthur", "Molly">>
Ghost == "Ghost"

\* --------------------------------------------------- arbitrary-size naturals

RECURSIVE BigOfInt(_)
BigOfInt(x) == IF x = 0 THEN << >> ELSE <<x % Base>> \o BigOfInt(x \div Base)

RECURSIVE BigAddC(_, _, _)
BigAddC(a, b, c) ==
    IF a = << >> /\ b = << >> THEN BigOfInt(c)
    ELSE LET x == IF a = << >> THEN 0 ELSE Head(a)
             y == IF b = << >> THEN 0 ELSE Head(b)
             t == x + y + c
         IN  <<t % Base>> \o BigAddC(IF a = << >> THEN a ELSE Tail(a),
                                     IF b = << >> THEN b ELSE Tail(b),
                                     t \div Base)

BigAdd(a, b) == BigAddC(a, b, 0)

RECURSIVE BigMulC(_, _, _)
BigMulC(a, f, c) ==
    IF a = << >> THEN BigOfInt(c)
    ELSE LET t == Head(a) * f + c
         IN  <<t % Base>> \o BigMulC(Tail(a), f, t \div Base)

\* a * f for a machine integer f
BigMulSmall(a, f) == IF f = 0 THEN << >> ELSE BigMulC(a, f, 0)

BigShift(a) == IF a = << >> THEN a ELSE <<0>> \o a

RECURSIVE BigMul(_, _)
BigMul(a, b) ==
    IF b = << >> THEN << >>
    ELSE BigAdd(BigMulSmall(a, Head(b)), BigShift(BigMul(a, Tail(b))))

RECURSIVE BigLessFrom(_, _, _)
BigLessFrom(a, b, n) ==
    IF n = 0 THEN FALSE
    ELSE IF a[n] # b[n] THEN a[n] < b[n]
    ELSE BigLessFrom(a, b, n - 1)

BigLess(a, b) ==
    IF Len(a) # Len(b) THEN Len(a) < Len(b) ELSE BigLessFrom(a, b, Len(a))

BigZero == << >>
BigOne == BigOfInt(1)

\* ------------------------------------------------------------------ rationals

Rat(n, d) == [num |-> BigOfInt(n), den |-> BigOfInt(d)]

RatZero == [num |-> BigZero, den |-> BigOne]
RatOne == [num |-> BigOne, den |-> BigOne]

RatAdd(x, y) ==
    IF x.den = y.den THEN [num |-> BigAdd(x.num, y.num), den |-> x.den]
    ELSE [num |-> BigAdd(BigMul(x.num, y.den), BigMul(y.num, x.den)),
          den |-> BigMul(x.den, y.den)]

RatMul(x, y) == [num |-> BigMul(x.num, y.num), den |-> BigMul(x.den, y.den)]

\* x / y, y # 0
RatDiv(x, y) == [num |-> BigMul(x.num, y.den), den |-> BigMul(x.den, y.num)]

RatEq(x, y) == BigMul(x.num, y.den) = BigMul(y.num, x.den)

RatLess(x, y) == BigLess(BigMul(x.num, y.den), BigMul(y.num, x.den))

RatPos(x) == x.num # BigZero

\* Small rationals on machine integers (the per-person factors).
Q(n, d) == [n |-> n, d |-> d]

QMul(x, y) == Q(x.n * y.n, x.d * y.d)

QAdd(x, y) == IF x.d = y.d THEN Q(x.n + y.n, x.d) ELSE Q(x.n * y.d + y.n * x.d, x.d * y.d)

\* 1 - x
QCompl(x) == Q(x.d - x.n, x.d)

\* x * f for a small rational f
RatMulQ(x, f) == [num |-> BigMulSmall(x.num, f.n), den |-> BigMulSmall(x.den, f.d)]

\* ----------------------------------------------------- more on the naturals

RECURSIVE BigTrim(_)
BigTrim(a) ==
    IF a = << >> THEN a
    ELSE IF a[Len(a)] = 0 THEN BigTrim(SubSeq(a, 1, Len(a) - 1)) ELSE a

RECURSIVE BigSubB(_, _, _)
BigSubB(a, b, borrow) ==
    IF a = << >> THEN << >>
    ELSE LET y == IF b = << >> THEN 0 ELSE Head(b)
             t == Head(a) - y - borrow
         IN  <<IF t < 0 THEN t + Base ELSE t>>
             \o BigSubB(Tail(a), IF b = << >> THEN b ELSE Tail(b), IF t < 0 THEN 1 ELSE 0)

\* a - b, for a >= b
BigSub(a, b) == BigTrim(BigSubB(a, b, 0))

RECURSIVE BigToInt(_)
BigToInt(a) == IF a = << >> THEN 0 ELSE Head(a) + Base * BigToInt(Tail(a))

\* The limbs n.. of a divided by the machine integer d
with_limb(high, limb, d) ==
    [q |-> <<(high.r * Base + limb) \div d>> \o high.q, r |-> (high.r * Base + limb) % d]

RECURSIVE BigDivModC(_, _, _)
BigDivModC(a, d, n) ==
    IF n > Len(a) THEN [q |-> << >>, r |-> 0]
    ELSE with_limb(BigDivModC(a, d, n + 1), a[n], d)

trimmed(x) == [q |-> BigTrim(x.q), r |-> x.r]

\* a = q * d + r, 0 <= r < d, for a machine integer d
BigDivMod(a, d) == trimmed(BigDivModC(a, d, 1))

\* a * 2^count
RECURSIVE BigShl(_, _)
BigShl(a, count) ==
    IF count = 0 THEN a
    ELSE IF count >= 20 THEN BigShl(BigMulSmall(a, 2^20), count - 20)
    ELSE BigMulSmall(a, 2^count)

Min(x, y) == IF x <= y THEN x ELSE y

or_sticky(x, s) == [q |-> x.q, sticky |-> x.sticky \/ s]

\* q = a \div 2^count, and sticky: a bit that is set was shifted out
RECURSIVE BigShr(_, _)
RECURSIVE shifted(_, _)
BigShr(a, count) ==
    IF count = 0 THEN [q |-> a, sticky |-> FALSE]
    ELSE shifted(BigDivMod(a, 2^Min(count, 20)), count - Min(count, 20))

shifted(d, count) == or_sticky(BigShr(d.q, count), d.r # 0)

RECURSIVE IntBitLen(_)
IntBitLen(x) == IF x = 0 THEN 0 ELSE 1 + IntBitLen(x \div 2)

\* The number of bits of a
RECURSIVE BigBitLen(_)
RECURSIVE bits_above(_, _)
BigBitLen(a) == bits_above(a, BigDivMod(a, 2^20).q)

bits_above(a, q) == IF q = << >> THEN IntBitLen(BigToInt(a)) ELSE 20 + BigBitLen(q)

\* ------------------------------------------------------------------- floats

\* A Python float (IEEE 754 binary64) that is finite and not negative: the
\* value m * 2^e, with m = 0 and e = 0, or 2^52 <= m < 2^53. The program's
\* values lie between 1e-30 and 1, far from overflow and from the subnormals.
float_zero == [m |-> BigZero, e |-> 0]

\* m * 2^e for m <= 2^53, as a float
carried(m, e) ==
    IF m = BigShl(BigOne, 53) THEN [m |-> BigShl(BigOne, 52), e |-> e + 1]
    ELSE [m |-> m, e |-> e]

\* (2 * half.q + half.r + s) * 2^(e - 1) rounded to half.q or half.q + 1 times
\* 2^e, where 0 <= s < 1 and sticky tells whether s > 0; ties go to the even
round_half(half, sticky, e) ==
    IF half.r = 1 /\ (sticky \/ BigDivMod(half.q, 2).r = 1)
    THEN carried(BigAdd(half.q, BigOne), e)
    ELSE [m |-> half.q, e |-> e]

round_low(low, sticky, e) == round_half(BigDivMod(low.q, 2), low.sticky \/ sticky, e)

round_bits(n, e, sticky, bits) ==
    IF bits <= 53 THEN [m |-> BigShl(n, 53 - bits), e |-> e - (53 - bits)]
    ELSE round_low(BigShr(n, bits - 54), sticky, e + (bits - 53))

\* The float nearest to (n + s) * 2^e, where 0 <= s < 1 and sticky tells
\* whether s > 0 (then n has more than 54 bits); ties go to the even mantissa.
float_round(n, e, sticky) ==
    IF n = BigZero THEN float_zero ELSE round_bits(n, e, sticky, BigBitLen(n))

\* float(x) for an int x >= 0
float(x) == float_round(BigOfInt(x), 0, FALSE)

\* x + y
float_add(x, y) ==
    IF x.m = BigZero THEN y
    ELSE IF y.m = BigZero THEN x
    ELSE float_round(BigAdd(BigShl(x.m, x.e - Min(x.e, y.e)),
                            BigShl(y.m, y.e - Min(x.e, y.e))), Min(x.e, y.e), FALSE)

\* x - y, for x >= y
float_sub(x, y) ==
    IF y.m = BigZero THEN x
    ELSE float_round(BigSub(BigShl(x.m, x.e - Min(x.e, y.e)),
                            BigShl(y.m, y.e - Min(x.e, y.e))), Min(x.e, y.e), FALSE)

\* x * y
float_mul(x, y) == float_round(BigMul(x.m, y.m), x.e + y.e, FALSE)

add_bit(x, b) == [q |-> x.q + b, rem |-> x.rem]

\* rem / d to the given number of bits, for rem < 2 * d: the quotient
\* q = (rem * 2^(bits - 1)) \div d, a machine integer, and what is left of rem
RECURSIVE quotient_bits(_, _, _)
quotient_bits(rem, d, bits) ==
    IF bits = 0 THEN [q |-> 0, rem |-> rem]
    ELSE IF BigLess(rem, d) THEN quotient_bits(BigMulSmall(rem, 2), d, bits - 1)
    ELSE add_bit(quotient_bits(BigMulSmall(BigSub(rem, d), 2), d, bits - 1), 2^(bits - 1))

add_digit(x, b) == [q |-> BigAdd(b, x.q), rem |-> x.rem]

\* The same to 7 * digits bits, seven bits at a time: q is arbitrary-size
RECURSIVE long_division(_, _, _)
RECURSIVE next_digit(_, _, _)
long_division(rem, d, digits) ==
    IF digits = 0 THEN [q |-> BigZero, rem |-> rem]
    ELSE next_digit(quotient_bits(rem, d, 7), d, digits)

next_digit(high, d, digits) ==
    add_digit(long_division(high.rem, d, digits - 1),
              BigShl(BigOfInt(high.q), 7 * (digits - 1)))

round_quotient(d, e) == float_round(d.q, e, d.rem # BigZero)

\* x / y, for y # 0
float_div(x, y) ==
    IF x.m = BigZero THEN float_zero
    ELSE round_quotient(long_division(x.m, y.m, 8), x.e - y.e - 55)

round_literal(d) == float_round(d.q, 0 - 64, d.r # 0)

\* The float a decimal literal n/d denotes, the one nearest to its value:
\* n * 2^64 \div d has more than 54 bits
float_literal(f) == round_literal(BigDivMod(BigShl(BigOfInt(f.n), 64), f.d))

\* -------------------------------------------------------------------- PROBS

PROBS ==
    [gene |-> [g \in 0..2 |-> CASE g = 2 -> Q(1, 100)
                                [] g = 1 -> Q(3, 100)
                                [] g = 0 -> Q(96, 100)],
     trait |-> [g \in 0..2 |->
                   CASE g = 2 -> [b \in {True, False} |-> IF b = True THEN Q(65, 100) ELSE Q(35, 100)]
                     [] g = 1 -> [b \in {True, False} |-> IF b = True THEN Q(56, 100) ELSE Q(44, 100)]
                     [] g = 0 -> [b \in {True, False} |-> IF b = True THEN Q(1, 100) ELSE Q(99, 100)]],
     mutation |-> Q(1, 100)]

\* ---------------------------------------------------------------- load_data

\* Mutant: a blank trait field is read as False.
load_data_blank_False(rs) ==
    [name \in {rs[x].name : x \in 1..Len(rs)} |->
        LET x == CHOOSE x \in 1..Len(rs) :
                    /\ rs[x].name = name
                    /\ \A y \in (x + 1)..Len(rs) : rs[y].name # name
            row == rs[x]
        IN  [name |-> name,
             mother |-> IF row.mother = Blank THEN None ELSE row.mother,
             father |-> IF row.father = Blank THEN None ELSE row.father,
             trait |-> IF row.trait = "1" THEN True ELSE False]]

\* data[name] = {...} for each row in order: a later row of the same name wins
load_data(rs) ==
    [name \in {rs[x].name : x \in 1..Len(rs)} |->
        LET x == CHOOSE x \in 1..Len(rs) :
                    /\ rs[x].name = name
                    /\ \A y \in (x + 1)..Len(rs) : rs[y].name # name
            row == rs[x]
        IN  [name |-> name,
             mother |-> IF row.mother = Blank THEN None ELSE row.mother,
             father |-> IF row.father = Blank THEN None ELSE row.father,
             trait |-> IF row.trait = "1" THEN True
                       ELSE IF row.trait = "0" THEN False ELSE None]]

\* ----------------------------------------------------------------- powerset

\* The order in which a dict's keys are iterated: the order of insertion,
\* which for people and probabilities is the order of the file's rows.
keys(d) == LET member(x) == x \in DOMAIN d IN SelectSeq(NameList, member)

\* list(s) when the interpreter iterates sets in the orders ord
list_in(ord, s) == ord[s]

\* Every subset of ns iterated in the order of the file's rows
row_order(ns) == [s \in SUBSET ns |-> LET member(x) == x \in s IN SelectSeq(NameList, member)]

\* list(s): the order in which a set's elements are iterated in this run
list(s) == list_in(order, s)

\* itertools.combinations(s, r), each tuple made a set
RECURSIVE combinations(_, _)
combinations(s, r) ==
    IF r = 0 THEN << {} >>
    ELSE IF Len(s) < r THEN << >>
    ELSE LET rest == combinations(Tail(s), r - 1)
         IN  [x \in 1..Len(rest) |-> {Head(s)} \cup rest[x]] \o combinations(Tail(s), r)

\* chain.from_iterable(combinations(s, r) for r in range(from, len(s) + 1))
RECURSIVE chain(_, _)
chain(s, from) == IF from > Len(s) THEN << >> ELSE combinations(s, from) \o chain(s, from + 1)

powerset_in(ord, s) == chain(list_in(ord, s), 0)

powerset(s) == powerset_in(order, s)

\* -------------------------------------------------------- joint_probability

gene_counts(ppl, one_gene, two_genes) ==
    [person \in DOMAIN ppl |->
        IF person \in one_gene THEN 1 ELSE IF person \in two_genes THEN 2 ELSE 0]

\* Mutant: a parent without the gene never passes it, one with two copies always.
prob_from_parent_no_mutation ==
    [g \in 0..2 |-> CASE g = 0 -> Q(0, 100)
                      [] g = 1 -> Q(50, 100)
                      [] g = 2 -> Q(100, 100)]

\* Probability of passing gene from a parent
prob_from_parent ==
    [g \in 0..2 |-> CASE g = 0 -> PROBS.mutation
                      [] g = 1 -> Q(50, 100)
                      [] g = 2 -> QCompl(PROBS.mutation)]

\* gene_counts[mother] or gene_counts[father] raises KeyError
raises_KeyError(ppl) ==
    \E person \in DOMAIN ppl :
        /\ ppl[person].mother # None
        /\ \/ ppl[person].mother \notin DOMAIN ppl
           \/ ppl[person].father \notin DOMAIN ppl

\* Mutant: one copy counts only the case where the mother passes the gene.
gene_p_one_term(ppl, counts, person) ==
    LET data == ppl[person]
        person_genes == counts[person]
    IN  IF data.mother = None
        THEN PROBS.gene[person_genes]
        ELSE LET p_from_mother == prob_from_parent[counts[data.mother]]
                 p_from_father == prob_from_parent[counts[data.father]]
             IN  IF person_genes = 0
                 THEN QMul(QCompl(p_from_mother), QCompl(p_from_father))
                 ELSE IF person_genes = 1
                 THEN QMul(p_from_mother, QCompl(p_from_father))
                 ELSE QMul(p_from_mother, p_from_father)

gene_p(ppl, counts, person) ==
    LET data == ppl[person]
        person_genes == counts[person]
    IN  IF data.mother = None
        THEN PROBS.gene[person_genes]
        ELSE LET p_from_mother == prob_from_parent[counts[data.mother]]
                 p_from_father == prob_from_parent[counts[data.father]]
             IN  IF person_genes = 0
                 THEN QMul(QCompl(p_from_mother), QCompl(p_from_father))
                 ELSE IF person_genes = 1
                 THEN QAdd(QMul(p_from_mother, QCompl(p_from_father)),
                           QMul(QCompl(p_from_mother), p_from_father))
                 ELSE QMul(p_from_mother, p_from_father)

\* Mutant: the trait of the first person listed is used for everyone.
trait_p_first_person(counts, have_trait, person) ==
    PROBS.trait[counts[person]][In(Head(keys(counts)), have_trait)]

trait_p(counts, have_trait, person) == PROBS.trait[counts[person]][In(person, have_trait)]

RECURSIVE joint_product(_, _, _, _, _)
joint_product(ppl, counts, have_trait, persons, joint_p) ==
    IF persons = << >> THEN joint_p
    ELSE joint_product(ppl, counts, have_trait, Tail(persons),
             RatMulQ(joint_p, QMul(gene_p(ppl, counts, Head(persons)),
                                   trait_p(counts, have_trait, Head(persons)))))

joint_probability(ppl, one_gene, two_genes, have_trait) ==
    joint_product(ppl, gene_counts(ppl, one_gene, two_genes), have_trait,
                  keys(ppl), RatOne)

\* ------------------------------------------------------------------- update

\* Mutant: a person outside one_gene is counted as having two copies.
update_no_zero(probs, one_gene, two_genes, have_trait, q) ==
    [person \in DOMAIN probs |->
        LET num_genes == IF person \in one_gene THEN 1 ELSE 2
            has_trait == In(person, have_trait)
        IN  [gene |-> [g \in 0..2 |->
                          IF g = num_genes THEN RatAdd(probs[person].gene[g], q)
                          ELSE probs[person].gene[g]],
             trait |-> [b \in {True, False} |->
                          IF b = has_trait THEN RatAdd(probs[person].trait[b], q)
                          ELSE probs[person].trait[b]]]]

\* Mutant: only the people who have the trait get their trait cell updated.
update_trait_when_present(probs, one_gene, two_genes, have_trait, q) ==
    [person \in DOMAIN probs |->
        LET num_genes == IF person \in one_gene THEN 1
                         ELSE IF person \in two_genes THEN 2 ELSE 0
            has_trait == In(person, have_trait)
        IN  [gene |-> [g \in 0..2 |->
                          IF g = num_genes THEN RatAdd(probs[person].gene[g], q)
                          ELSE probs[person].gene[g]],
             trait |-> [b \in {True, False} |->
                          IF b = True /\ has_trait = True
                          THEN RatAdd(probs[person].trait[b], q)
                          ELSE probs[person].trait[b]]]]

update(probs, one_gene, two_genes, have_trait, q) ==
    [person \in DOMAIN probs |->
        LET num_genes == IF person \in one_gene THEN 1
                         ELSE IF person \in two_genes THEN 2 ELSE 0
            has_trait == In(person, have_trait)
        IN  [gene |-> [g \in 0..2 |->
                          IF g = num_genes THEN RatAdd(probs[person].gene[g], q)
                          ELSE probs[person].gene[g]],
             trait |-> [b \in {True, False} |->
                          IF b = has_trait THEN RatAdd(probs[person].trait[b], q)
                          ELSE probs[person].trait[b]]]]

\* ---------------------------------------------------------------- normalize

gene_total(probs, person) ==
    RatAdd(RatAdd(probs[person].gene[2], probs[person].gene[1]), probs[person].gene[0])

trait_total(probs, person) ==
    RatAdd(probs[person].trait[True], probs[person].trait[False])

\* Mutant: the trait distribution is left as accumulated.
normalize_gene_only(probs) ==
    [person \in DOMAIN probs |->
        [gene |-> IF RatPos(gene_total(probs, person))
                  THEN [g \in 0..2 |-> RatDiv(probs[person].gene[g], gene_total(probs, person))]
                  ELSE probs[person].gene,
         trait |-> probs[person].trait]]

normalize(probs) ==
    [person \in DOMAIN probs |->
        [gene |-> IF RatPos(gene_total(probs, person))
                  THEN [g \in 0..2 |-> RatDiv(probs[person].gene[g], gene_total(probs, person))]
                  ELSE probs[person].gene,
         trait |-> IF RatPos(trait_total(probs, person))
                   THEN [b \in {True, False} |->
                            RatDiv(probs[person].trait[b], trait_total(probs, person))]
                   ELSE probs[person].trait]]

\* ------------------------------------------------- the functions, in floats

\* PROBS as the floats its literals denote
float_PROBS ==
    [gene |-> [g \in 0..2 |-> float_literal(PROBS.gene[g])],
     trait |-> [g \in 0..2 |-> [b \in {True, False} |-> float_literal(PROBS.trait[g][b])]],
     mutation |-> float_literal(PROBS.mutation)]

float_one == float(1)

\* {0: PROBS["mutation"], 1: 0.5, 2: 1 - PROBS["mutation"]}
float_prob_from_parent ==
    [g \in 0..2 |-> CASE g = 0 -> float_PROBS.mutation
                      [] g = 1 -> float_literal(Q(5, 10))
                      [] g = 2 -> float_sub(float_one, float_PROBS.mutation)]

\* gene_p for a person with parents
float_gene_p_child(person_genes, p_from_mother, p_from_father) ==
    IF person_genes = 0
    THEN float_mul(float_sub(float_one, p_from_mother), float_sub(float_one, p_from_father))
    ELSE IF person_genes = 1
    THEN float_add(float_mul(p_from_mother, float_sub(float_one, p_from_father)),
                   float_mul(float_sub(float_one, p_from_mother), p_from_father))
    ELSE float_mul(p_from_mother, p_from_father)

float_gene_p(ppl, counts, person) ==
    IF ppl[person].mother = None
    THEN float_PROBS.gene[counts[person]]
    ELSE float_gene_p_child(counts[person],
                            float_prob_from_parent[counts[ppl[person].mother]],
                            float_prob_from_parent[counts[ppl[person].father]])

float_trait_p(counts, have_trait, person) ==
    float_PROBS.trait[counts[person]][In(person, have_trait)]

\* joint_p *= gene_p * trait_p, for each person in turn
RECURSIVE float_joint_product(_, _, _, _, _)
float_joint_product(ppl, counts, have_trait, persons, joint_p) ==
    IF persons = << >> THEN joint_p
    ELSE float_joint_product(ppl, counts, have_trait, Tail(persons),
             float_mul(joint_p, float_mul(float_gene_p(ppl, counts, Head(persons)),
                                          float_trait_p(counts, have_trait, Head(persons)))))

float_joint_probability(ppl, one_gene, two_genes, have_trait) ==
    float_joint_product(ppl, gene_counts(ppl, one_gene, two_genes), have_trait,
                        keys(ppl), float_one)

float_update(probs, one_gene, two_genes, have_trait, q) ==
    [person \in DOMAIN probs |->
        LET num_genes == IF person \in one_gene THEN 1
                         ELSE IF person \in two_genes THEN 2 ELSE 0
            has_trait == In(person, have_trait)
        IN  [gene |-> [g \in 0..2 |->
                          IF g = num_genes THEN float_add(probs[person].gene[g], q)
                          ELSE probs[person].gene[g]],
             trait |-> [b \in {True, False} |->
                          IF b = has_trait THEN float_add(probs[person].trait[b], q)
                          ELSE probs[person].trait[b]]]]

\* sum(...values()): from 0, the values are added in the order of the keys
float_gene_total(probs, person) ==
    float_add(float_add(float_add(float_zero, probs[person].gene[2]),
                        probs[person].gene[1]), probs[person].gene[0])

float_trait_total(probs, person) ==
    float_add(float_add(float_zero, probs[person].trait[True]), probs[person].trait[False])

float_normalize(probs) ==
    [person \in DOMAIN probs |->
        [gene |-> IF float_gene_total(probs, person).m # BigZero
                  THEN [g \in 0..2 |->
                           float_div(probs[person].gene[g], float_gene_total(probs, person))]
                  ELSE probs[person].gene,
         trait |-> IF float_trait_total(probs, person).m # BigZero
                   THEN [b \in {True, False} |->
                            float_div(probs[person].trait[b], float_trait_total(probs, person))]
                   ELSE probs[person].trait]]

round_int(half, sticky) ==
    BigToInt(half.q)
    + (IF half.r = 1 /\ (sticky \/ BigDivMod(half.q, 2).r = 1) THEN 1 ELSE 0)

round_int_low(low) == round_int(BigDivMod(low.q, 2), low.sticky)

\* f"{x:.4f}" as a number of ten-thousandths: the exact value of the float x,
\* which is less than 2^52, rounded to four decimals, ties to even
format_4f(x) ==
    IF x.m = BigZero THEN 0
    ELSE round_int_low(BigShr(BigMulSmall(x.m, 10000), (0 - x.e) - 1))

\* --------------------------------------------------------------------- main

names == DOMAIN people

\* Mutant: the test for an unknown trait is missing.
fails_evidence_no_None(have_trait) ==
    \E person \in names : people[person].trait # In(person, have_trait)

\* Mutant: all(...) in place of any(...).
fails_evidence_all(have_trait) ==
    \A person \in names :
        /\ people[person].trait # None
        /\ people[person].trait # In(person, have_trait)

\* any(trait is not None and trait != (person in have_trait) for person in names)
fails_evidence(have_trait) ==
    \E person \in names :
        /\ people[person].trait # None
        /\ people[person].trait # In(person, have_trait)

cur_have_trait == powerset(names)[i]
cur_one_gene == powerset(names)[j]
\* Mutant: the second gene loop ranges over all of names.
two_genes_choices_all(one_gene) == powerset(names)

\* powerset(names - one_gene)
two_genes_choices(one_gene) == powerset(names \ one_gene)

cur_two_genes == two_genes_choices(cur_one_gene)[k]

NoWorld == [one_gene |-> {}, two_genes |-> {}, have_trait |-> {}]

\* A row's (mother, father) fields in a well-formed file: both blank, or two
\* earlier rows.
ParentFields(t) ==
    {<<Blank, Blank>>} \cup
    {<<NameList[a], NameList[b]>> : a \in 1..(t - 1), b \in 1..(t - 1)}

\* The rows of a well-formed file of n people.
ValidRows(n) ==
    {[t \in 1..n |-> [name |-> NameList[t], mother |-> par[t][1],
                      father |-> par[t][2], trait |-> tr[t]]] :
        par \in {f \in [1..n -> ParentFields(n)] :
                    \A t \in 1..n :
                        /\ f[t] \in ParentFields(t)
                        /\ f[t] = <<Blank, Blank>> \/
                           \E a, b \in 1..(t - 1) :
                               a < b /\ f[t] = <<NameList[a], NameList[b]>>},
        tr \in [1..n -> {"1", "0", Blank}]}

\* The rows of a family: a couple of founders and c children of theirs.
SiblingRows(c) ==
    {[t \in 1..(2 + c) |-> [name |-> NameList[t],
                            mother |-> IF t <= 2 THEN Blank ELSE NameList[1],
                            father |-> IF t <= 2 THEN Blank ELSE NameList[2],
                            trait |-> tr[t]]] :
        tr \in [1..(2 + c) -> {"1", "0", Blank}]}

\* Files of n people in which one row's parent and trait fields are arbitrary
\* and the other rows are founders of unknown trait.
ArbitraryRows(n) ==
    {[t \in 1..n |-> IF t = bad
                     THEN [name |-> NameList[t], mother |-> m, father |-> f, trait |-> tr]
                     ELSE [name |-> NameList[t], mother |-> Blank, father |-> Blank,
                           trait |-> Blank]] :
        bad \in 1..n,
        m \in {Blank, Ghost} \cup {NameList[x] : x \in 1..n},
        f \in {Blank, Ghost} \cup {NameList[x] : x \in 1..n},
        tr \in {"1", "0", Blank, "yes"}}

\* tictactoe.py: EMPTY, initial_state(); NoMove stands for minimax not called
EMPTY == None
initial_state == [row \in 0..2 |-> [col \in 0..2 |-> EMPTY]]
NoMove == "NoMove"

\* No game is played while heredity.py runs.
NoGame ==
    /\ board = initial_state
    /\ gpc = "idle"
    /\ best = NoMove

\* heredity.py before main has loaded the file
BeforeMain ==
    /\ people = << >>
    /\ probabilities = << >>
    /\ pc = "start"
    /\ i = 1 /\ j = 1 /\ k = 1
    /\ world = NoWorld
    /\ p = RatZero
    /\ calls = 0
    /\ seen = {}
    /\ output = << >>
    /\ total = RatZero

\* Sets of names are iterated in the order of the file's rows.
Init ==
    /\ rows \in UNION ({ValidRows(n) : n \in 0..MaxPeople}
                       \cup {SiblingRows(c) : c \in 0..MaxSiblings}
                       \cup {ArbitraryRows(n) : n \in 1..MaxMalformed})
    /\ order = row_order({rows[t].name : t \in DOMAIN rows})
    /\ run = 1
    /\ first = << >>
    /\ BeforeMain
    /\ NoGame

\* people = load_data(...); probabilities = {person: {...zeros...}}
Start ==
    /\ pc = "start"
    /\ people' = load_data(rows)
    /\ probabilities' =
          [person \in DOMAIN load_data(rows) |->
              [gene |-> [g \in 0..2 |-> RatZero],
               trait |-> [b \in {True, False} |-> RatZero]]]
    /\ pc' = "have_trait"
    /\ UNCHANGED <<game_vars, order, run, first, total, rows, i, j, k, world, p, calls, seen, output>>

\* Mutant: break in place of continue.
break_at(idx) == Len(powerset(names)) + 1

\* continue: the loop goes on with the next have_trait
continue_at(idx) == idx + 1

\* for have_trait in powerset(names): fails_evidence, continue
EvidenceFails ==
    /\ pc = "have_trait"
    /\ i <= Len(powerset(names))
    /\ fails_evidence(cur_have_trait)
    /\ i' = continue_at(i)
    /\ UNCHANGED <<game_vars, order, run, first, total, rows, people, probabilities, pc, j, k, world, p, calls, seen, output>>

\* for have_trait in powerset(names): evidence respected, enter the gene loops
EvidenceHolds ==
    /\ pc = "have_trait"
    /\ i <= Len(powerset(names))
    /\ ~fails_evidence(cur_have_trait)
    /\ pc' = "genes"
    /\ j' = 1 /\ k' = 1
    /\ UNCHANGED <<game_vars, order, run, first, total, rows, people, probabilities, i, world, p, calls, seen, output>>

\* the loop counters after the body ran for (i, j, k); every list powerset
\* returns holds at least the empty set, so each loop entered has a first item
Advance ==
    IF k < Len(two_genes_choices(cur_one_gene))
    THEN /\ k' = k + 1
         /\ UNCHANGED <<i, j, pc>>
    ELSE IF j < Len(powerset(names))
    THEN /\ j' = j + 1 /\ k' = 1
         /\ UNCHANGED <<i, pc>>
    ELSE /\ i' = i + 1 /\ j' = 1 /\ k' = 1
         /\ pc' = "have_trait"

\* p = joint_probability(...); update(probabilities, ..., p)
EvalWorld ==
    /\ pc = "genes"
    /\ ~raises_KeyError(people)
    /\ LET q == joint_probability(people, cur_one_gene, cur_two_genes, cur_have_trait)
       IN  /\ p' = q
           /\ probabilities' = update(probabilities, cur_one_gene, cur_two_genes,
                                      cur_have_trait, q)
    /\ world' = [one_gene |-> cur_one_gene, two_genes |-> cur_two_genes,
                 have_trait |-> cur_have_trait]
    /\ calls' = calls + 1
    /\ seen' = seen \cup {world'}
    /\ total' = RatAdd(total, p')
    /\ Advance
    /\ UNCHANGED <<game_vars, order, run, first, rows, people, output>>

\* joint_probability raises KeyError: the traceback ends the process
EvalWorldKeyError ==
    /\ pc = "genes"
    /\ raises_KeyError(people)
    /\ pc' = "KeyError"
    /\ UNCHANGED <<game_vars, order, run, first, total, rows, people, probabilities, i, j, k, world, p, calls, seen, output>>

\* normalize(probabilities), after the loops
Normalize ==
    /\ pc = "have_trait"
    /\ i > Len(powerset(names))
    /\ probabilities' = normalize(probabilities)
    /\ pc' = "print"
    /\ UNCHANGED <<game_vars, order, run, first, total, rows, people, i, j, k, world, p, calls, seen, output>>

\* for person in people: print the two distributions (the values' formatting
\* to four decimals is not modelled: output lists whose were printed)
PrintResults ==
    /\ pc = "print"
    /\ output' = keys(people)
    /\ pc' = "done"
    /\ UNCHANGED <<game_vars, order, run, first, total, rows, people, probabilities, i, j, k, world, p, calls, seen>>

Next ==
    \/ Start
    \/ EvidenceFails
    \/ EvidenceHolds
    \/ EvalWorld
    \/ EvalWorldKeyError
    \/ Normalize
    \/ PrintResults

Spec == Init /\ [][Next]_vars

\* ------------------------------------------------- main twice, in floats

\* Largest population of arbitrary shape that is run twice.
MaxTwice == 2

\* A couple observed to have and not to have the trait, and their child.
FamilyRows == {rs \in SiblingRows(1) : rs[1].trait = "1" /\ rs[2].trait = "0"}

RECURSIVE Permutations(_)
Permutations(s) ==
    IF s = {} THEN {<< >>}
    ELSE UNION {{<<x>> \o rest : rest \in Permutations(s \ {x})} : x \in s}

\* The ways of giving an order to each set of ss
RECURSIVE OrdersOf(_)
OrdersOf(ss) ==
    IF ss = {} THEN {<< >>}
    ELSE LET s == CHOOSE t \in ss : TRUE
         IN  {[t \in ss |-> IF t = s THEN q ELSE f[t]] :
                 f \in OrdersOf(ss \ {s}), q \in Permutations(s)}

\* The orders in which a run of the interpreter may iterate the subsets of
\* ns: they follow from the hashes of the names, which differ from run to run
\* (hash randomization), and from how each set was built.
SetOrders(ns) == OrdersOf(SUBSET ns)

\* The first run iterates sets in the order of the rows.
InitTwice ==
    /\ rows \in UNION {ValidRows(n) : n \in 0..MaxTwice} \cup FamilyRows
    /\ order = row_order({rows[t].name : t \in DOMAIN rows})
    /\ run = 1
    /\ first = << >>
    /\ BeforeMain
    /\ NoGame

\* people = load_data(...); probabilities = {person: {...zeros...}}
StartFloat ==
    /\ pc = "start"
    /\ people' = load_data(rows)
    /\ probabilities' =
          [person \in DOMAIN load_data(rows) |->
              [gene |-> [g \in 0..2 |-> float_zero],
               trait |-> [b \in {True, False} |-> float_zero]]]
    /\ pc' = "have_trait"
    /\ UNCHANGED <<game_vars, order, run, first, total, rows, i, j, k, world, p, calls, seen, output>>

\* p = joint_probability(...); update(probabilities, ..., p)
EvalWorldFloat ==
    /\ pc = "genes"
    /\ \E q \in {float_joint_probability(people, cur_one_gene, cur_two_genes,
                                         cur_have_trait)} :
          /\ p' = q
          /\ probabilities' = float_update(probabilities, cur_one_gene, cur_two_genes,
                                           cur_have_trait, q)
    /\ world' = [one_gene |-> cur_one_gene, two_genes |-> cur_two_genes,
                 have_trait |-> cur_have_trait]
    /\ calls' = calls + 1
    /\ seen' = seen \cup {world'}
    /\ Advance
    /\ UNCHANGED <<game_vars, order, run, first, total, rows, people, output>>

\* normalize(probabilities), after the loops
NormalizeFloat ==
    /\ pc = "have_trait"
    /\ i > Len(powerset(names))
    /\ probabilities' = float_normalize(probabilities)
    /\ pc' = "print"
    /\ UNCHANGED <<game_vars, order, run, first, total, rows, people, i, j, k, world, p, calls, seen, output>>

\* for person in people: print each value of the two distributions as {p:.4f}
PrintFloat ==
    /\ pc = "print"
    /\ output' = [person \in DOMAIN people |->
                     [gene |-> [g \in 0..2 |-> format_4f(probabilities[person].gene[g])],
                      trait |-> [b \in {True, False} |->
                                    format_4f(probabilities[person].trait[b])]]]
    /\ pc' = "done"
    /\ UNCHANGED <<game_vars, order, run, first, total, rows, people, probabilities, i, j, k, world, p, calls, seen>>

\* The program is run again on the same file, by an interpreter that iterates
\* sets in any order.
RunAgain ==
    /\ pc = "done"
    /\ run = 1
    /\ run' = 2
    /\ first' = [probabilities |-> probabilities, output |-> output]
    /\ order' \in SetOrders(names)
    /\ people' = << >>
    /\ probabilities' = << >>
    /\ pc' = "start"
    /\ i' = 1 /\ j' = 1 /\ k' = 1
    /\ world' = NoWorld
    /\ p' = RatZero
    /\ calls' = 0
    /\ seen' = {}
    /\ output' = << >>
    /\ UNCHANGED <<game_vars, total, rows>>

NextTwice ==
    \/ StartFloat
    \/ EvidenceFails
    \/ EvidenceHolds
    \/ EvalWorldFloat
    \/ NormalizeFloat
    \/ PrintFloat
    \/ RunAgain

SpecTwice == InitTwice /\ [][NextTwice]_vars

\* ------------------------------------------------------------ tictactoe.py

X == "X"
O == "O"

\* math.inf: above every utility, which is -1, 0 or 1
inf == 2

\* row.count(mark)
row_count(row, mark) == Cardinality({col \in 0..2 : row[col] = mark})

\* player(board): who has the next turn
player(b) ==
    LET x_count == row_count(b[0], X) + row_count(b[1], X) + row_count(b[2], X)
        o_count == row_count(b[0], O) + row_count(b[1], O) + row_count(b[2], O)
    IN  IF x_count > o_count THEN O ELSE X

\* actions(board): the set of the (i, j) whose cell is empty
actions(b) == {action \in (0..2) \X (0..2) : b[action[1]][action[2]] = EMPTY}

ValueError == "ValueError"

\* result(board, action): a copy of the board with the player's mark at (i, j)
result(b, action) ==
    IF \/ action[1] < 0 \/ action[1] >= 3 \/ action[2] < 0 \/ action[2] >= 3
       \/ b[action[1]][action[2]] # EMPTY
    THEN ValueError
    ELSE [b EXCEPT ![action[1]][action[2]] = player(b)]

\* a == b == c and a is not EMPTY
three(a, b, c) == a = b /\ b = c /\ a # EMPTY

\* winner(board): rows first, then columns, then the two diagonals
winner(b) ==
    IF three(b[0][0], b[0][1], b[0][2]) THEN b[0][0]
    ELSE IF three(b[1][0], b[1][1], b[1][2]) THEN b[1][0]
    ELSE IF three(b[2][0], b[2][1], b[2][2]) THEN b[2][0]
    ELSE IF three(b[0][0], b[1][0], b[2][0]) THEN b[0][0]
    ELSE IF three(b[0][1], b[1][1], b[2][1]) THEN b[0][1]
    ELSE IF three(b[0][2], b[1][2], b[2][2]) THEN b[0][2]
    ELSE IF three(b[0][0], b[1][1], b[2][2]) THEN b[0][0]
    ELSE IF three(b[0][2], b[1][1], b[2][0]) THEN b[0][2]
    ELSE None

\* terminal(board)
terminal(b) == winner(b) # None \/ actions(b) = {}

\* Mutant: a win of O counts as a draw.
utility_X_only(b) == IF winner(b) = X THEN 1 ELSE 0

\* utility(board)
utility(b) ==
    LET win_player == winner(b)
    IN  IF win_player = X THEN 1
        ELSE IF win_player = O THEN 0 - 1
        ELSE 0

\* max and min of a set of numbers that is not empty
max(s) == CHOOSE v \in s : \A w \in s : w <= v
min(s) == CHOOSE v \in s : \A w \in s : v <= w

\* max_value(board), min_value(board): v starts at -inf (inf) and takes the
\* max (min) with the value of every action; the order of the actions does
\* not matter to a max or min of ints
RECURSIVE max_value(_)
RECURSIVE min_value(_)
max_value(b) ==
    IF terminal(b) THEN utility(b)
    ELSE max({0 - inf} \cup {min_value(result(b, action)) : action \in actions(b)})

min_value(b) ==
    IF terminal(b) THEN utility(b)
    ELSE min({inf} \cup {max_value(result(b, action)) : action \in actions(b)})

\* The cells in the order in which actions adds them to the set
cells == [n \in 1..9 |-> <<(n - 1) \div 3, (n - 1) % 3>>]

\* listed from its item n on, and then from its first item
rotated(listed, n) == [m \in 1..Len(listed) |-> listed[((n + m - 2) % Len(listed)) + 1]]

\* The orders in which `for action in s` may meet the members of the set s.
\* Python leaves the order of a set open. The loops of minimax return the
\* first action of the best score, so what they can return under any order
\* they return under one of these, where every member of s comes first once.
listings(s) ==
    LET added == SelectSeq(cells, LAMBDA action : action \in s)
    IN  {rotated(added, n) : n \in 1..Len(added)}

\* score = min_value(result(board, action)) for X, max_value(...) for O
score_of(b, action) ==
    IF player(b) = X THEN min_value(result(b, action)) ELSE max_value(result(b, action))

\* The score the body of the loop computes for the action; scored holds the
\* pair (action, score) of every action
score_at(scored, action) == (CHOOSE pair \in scored : pair[1] = action)[2]

\* The for loop of minimax from item n of the listed actions on
RECURSIVE best_from(_, _, _, _, _, _)
best_from(current_player, listed, scored, n, best_score, best_action) ==
    IF n > Len(listed) THEN best_action
    ELSE IF \/ current_player = X /\ score_at(scored, listed[n]) > best_score
            \/ current_player = O /\ score_at(scored, listed[n]) < best_score
    THEN best_from(current_player, listed, scored, n + 1,
                   score_at(scored, listed[n]), listed[n])
    ELSE best_from(current_player, listed, scored, n + 1, best_score, best_action)

\* minimax(board): the values it may return, one for each order of the set
\* of actions; the scores do not depend on the order
minimax(b) ==
    IF terminal(b) THEN {None}
    ELSE LET scored == {<<action, score_of(b, action)>> : action \in actions(b)}
         IN  {best_from(player(b), listed, scored, 1,
                        IF player(b) = X THEN 0 - inf ELSE inf, None) :
              listed \in listings(actions(b))}

\* --------------------------------------------------------------- a game

heredity_vars == <<rows, people, probabilities, pc, i, j, k, world, p, calls, seen,
                   output, order, total, run, first>>

\* board = initial_state(): a game begins, and heredity.py does not run
InitGame ==
    /\ rows = << >>
    /\ order = row_order({})
    /\ run = 1
    /\ first = << >>
    /\ BeforeMain
    /\ board = initial_state
    /\ gpc = "think"
    /\ best = NoMove

\* best = minimax(board)
Think ==
    /\ gpc = "think"
    /\ best' \in minimax(board)
    /\ gpc' = "move"
    /\ UNCHANGED <<board, heredity_vars>>

\* board = result(board, action) for any legal action, minimax's or not
Move ==
    /\ gpc = "move"
    /\ \E action \in actions(board) : board' = result(board, action)
    /\ ~terminal(board)
    /\ gpc' = "think"
    /\ best' = NoMove
    /\ UNCHANGED heredity_vars

NextGame == Think \/ Move

SpecGame == InitGame /\ [][NextGame]_vars

\* ------------------------------------------------------- populations, worlds

\* The parents a person names
ParentsOf(ppl, x) == {ppl[x].mother, ppl[x].father} \ {None}

RECURSIVE AncestorsWithin(_, _, _)
AncestorsWithin(ppl, xs, depth) ==
    IF depth = 0 THEN {}
    ELSE LET up == UNION {ParentsOf(ppl, x) \cap DOMAIN ppl : x \in xs \cap DOMAIN ppl}
         IN  up \cup AncestorsWithin(ppl, up, depth - 1)

Ancestors(ppl, x) == AncestorsWithin(ppl, {x}, Cardinality(DOMAIN ppl))

\* Both parents present or both absent, every parent a key of the population
WellFormedParents(ppl) ==
    \A x \in DOMAIN ppl :
        /\ (ppl[x].mother = None) <=> (ppl[x].father = None)
        /\ ParentsOf(ppl, x) \subseteq DOMAIN ppl

\* A valid population: well-formed parents, and nobody is their own ancestor
ValidPopulation(ppl) ==
    /\ WellFormedParents(ppl)
    /\ \A x \in DOMAIN ppl : x \notin Ancestors(ppl, x)

\* The population has been loaded
Loaded == pc # "start"

\* The enumeration has ended and normalize has run
Normalized == pc \in {"print", "done"}

Observed(ppl) == {x \in DOMAIN ppl : ppl[x].trait # None}

RECURSIVE Pow(_, _)
Pow(b, e) == IF e = 0 THEN 1 ELSE b * Pow(b, e - 1)

\* ---------------------------------------------------------------------- C1

\* C1: for every valid population, after the enumeration and normalize, every
\* individual's gene distribution sums to 1 and every individual's trait
\* distribution sums to 1.
C1_DistributionsSumToOne ==
    (Normalized /\ ValidPopulation(people)) =>
        \A person \in DOMAIN probabilities :
            /\ RatEq(gene_total(probabilities, person), RatOne)
            /\ RatEq(trait_total(probabilities, person), RatOne)

\* A child of two founders, one of them of observed trait, has been normalized.
C1_Witness ==
    /\ pc = "done"
    /\ ValidPopulation(people)
    /\ \E x \in DOMAIN people :
          people[x].mother # None /\ people[x].mother # people[x].father
    /\ Observed(people) # {}
    /\ Observed(people) # DOMAIN people
    /\ \A person \in DOMAIN probabilities :
           RatEq(gene_total(probabilities, person), RatOne)

\* ---------------------------------------------------------------------- C2

\* The worlds main evaluates for a population: 3^n gene assignments times the
\* trait assignments consistent with the evidence.
ExpectedWorlds(ppl) ==
    Pow(3, Cardinality(DOMAIN ppl)) * Pow(2, Cardinality(DOMAIN ppl \ Observed(ppl)))

\* C2: no world is evaluated twice, and when the enumeration has ended it has
\* evaluated 3^n times (number of trait assignments consistent with the
\* evidence) worlds: 3^n * 2^n when no trait is observed.
C2_WorldCount ==
    /\ Cardinality(seen) = calls
    /\ Normalized =>
          /\ calls = ExpectedWorlds(people)
          /\ Observed(people) = {} =>
                calls = Pow(3, Cardinality(names)) * Pow(2, Cardinality(names))

\* Three people without evidence: 27 * 8 worlds were evaluated.
C2_Witness ==
    /\ pc = "done"
    /\ Cardinality(names) = 3
    /\ Observed(people) = {}
    /\ calls = 216
    /\ Cardinality(seen) = 216

\* Three people, one observed: 27 * 4 worlds were evaluated.
C2_WitnessEvidence ==
    /\ pc = "done"
    /\ Cardinality(names) = 3
    /\ Cardinality(Observed(people)) = 1
    /\ calls = 108

\* ---------------------------------------------------------------------- C3

ConsistentWithEvidence(ppl, w) ==
    \A person \in Observed(ppl) : In(person, w.have_trait) = ppl[person].trait

\* C3: every world that reached joint_probability and update has one_gene and
\* two_genes disjoint subsets of the population and agrees with every observed
\* trait; nothing is accumulated from a world that contradicts the evidence.
C3_WorldsWellFormed ==
    /\ \A w \in seen :
          /\ w.one_gene \cap w.two_genes = {}
          /\ w.one_gene \subseteq names
          /\ w.two_genes \subseteq names
          /\ w.have_trait \subseteq names
          /\ ConsistentWithEvidence(people, w)
    /\ calls > 0 => world \in seen
    /\ calls = 0 =>
          \A person \in DOMAIN probabilities :
              /\ \A g \in 0..2 : probabilities[person].gene[g] = RatZero
              /\ \A b \in {True, False} : probabilities[person].trait[b] = RatZero

\* A world with people in one_gene and in two_genes was evaluated under
\* evidence, after worlds contradicting the evidence were skipped.
C3_Witness ==
    /\ calls > 0
    /\ world.one_gene # {}
    /\ world.two_genes # {}
    /\ Observed(people) # {}
    /\ i > 1
    /\ Cardinality(seen) < (i - 1) * Pow(3, Cardinality(names))
\* ---------------------------------------------------------------------- C4

\* An individual's gene count in a world
GeneCount(w, x) == IF x \in w.one_gene THEN 1 ELSE IF x \in w.two_genes THEN 2 ELSE 0

\* p for a parent with 0 / 1 / 2 copies, and 1 - p
PassProbability(g) == CASE g = 0 -> Rat(1, 100) [] g = 1 -> Rat(5, 10) [] g = 2 -> Rat(99, 100)
NoPassProbability(g) == CASE g = 0 -> Rat(99, 100) [] g = 1 -> Rat(5, 10) [] g = 2 -> Rat(1, 100)

ExpectedGeneP(ppl, w, x) ==
    IF ppl[x].mother = None /\ ppl[x].father = None
    THEN CASE GeneCount(w, x) = 0 -> Rat(96, 100)
           [] GeneCount(w, x) = 1 -> Rat(3, 100)
           [] GeneCount(w, x) = 2 -> Rat(1, 100)
    ELSE LET m == GeneCount(w, ppl[x].mother)
             f == GeneCount(w, ppl[x].father)
         IN  CASE GeneCount(w, x) = 0 -> RatMul(NoPassProbability(m), NoPassProbability(f))
               [] GeneCount(w, x) = 1 ->
                     RatAdd(RatMul(PassProbability(m), NoPassProbability(f)),
                            RatMul(NoPassProbability(m), PassProbability(f)))
               [] GeneCount(w, x) = 2 -> RatMul(PassProbability(m), PassProbability(f))

ExpectedTraitP(w, x) ==
    LET t == x \in w.have_trait
    IN  CASE GeneCount(w, x) = 0 -> IF t THEN Rat(1, 100) ELSE Rat(99, 100)
          [] GeneCount(w, x) = 1 -> IF t THEN Rat(56, 100) ELSE Rat(44, 100)
          [] GeneCount(w, x) = 2 -> IF t THEN Rat(65, 100) ELSE Rat(35, 100)

RECURSIVE ExpectedJoint(_, _, _)
ExpectedJoint(ppl, w, xs) ==
    IF xs = {} THEN RatOne
    ELSE LET x == CHOOSE x \in xs : TRUE
         IN  RatMul(RatMul(ExpectedGeneP(ppl, w, x), ExpectedTraitP(w, x)),
                    ExpectedJoint(ppl, w, xs \ {x}))

\* C4: joint_probability of a world is the product over all individuals of
\* gene_p * trait_p: trait_p the table entry for (gene count, trait), gene_p the
\* prior 0.96 / 0.03 / 0.01 without parents, and with parents of
\* pass-probabilities p_m, p_f (0.01 / 0.5 / 0.99 for 0 / 1 / 2 copies, read
\* from the same world) (1-p_m)(1-p_f), p_m(1-p_f)+(1-p_m)p_f or p_m*p_f.
C4_JointIsProduct ==
    (calls > 0 /\ WellFormedParents(people)) =>
        RatEq(p, ExpectedJoint(people, world, names))

\* A world was evaluated in which a child with one copy has a mother with two
\* copies and a father with none.
C4_Witness ==
    /\ calls > 0
    /\ WellFormedParents(people)
    /\ \E x \in names :
          /\ people[x].mother # None
          /\ GeneCount(world, x) = 1
          /\ GeneCount(world, people[x].mother) = 2
          /\ GeneCount(world, people[x].father) = 0
          /\ x \in world.have_trait
    /\ RatEq(p, ExpectedJoint(people, world, names))

\* ---------------------------------------------------------------------- C5

\* The loops have ended and normalize is about to be called
BeforeNormalize == pc = "have_trait" /\ i > Len(powerset(names))

\* C5: for a valid population every evaluated world has 0 < p <= 1, and when
\* normalize is called every individual's accumulated gene sum and trait sum
\* are strictly positive.
C5_JointPositive ==
    ValidPopulation(people) =>
        /\ calls > 0 => (RatPos(p) /\ ~RatLess(RatOne, p))
        /\ BeforeNormalize =>
              \A person \in DOMAIN probabilities :
                  /\ RatPos(gene_total(probabilities, person))
                  /\ RatPos(trait_total(probabilities, person))

\* normalize is about to be called for a population with a child, every
\* trait sum being positive.
C5_Witness ==
    /\ ValidPopulation(people)
    /\ BeforeNormalize
    /\ \E x \in names : people[x].mother # None
    /\ \A person \in DOMAIN probabilities : RatPos(trait_total(probabilities, person))

\* A world of least probability was evaluated: a child with two copies whose
\* parents have none.
C5_WitnessSmall ==
    /\ ValidPopulation(people)
    /\ calls > 0
    /\ \E x \in names :
          /\ people[x].mother # None
          /\ GeneCount(world, x) = 2
          /\ GeneCount(world, people[x].mother) = 0
          /\ GeneCount(world, people[x].father) = 0
    /\ RatPos(p)
\* ---------------------------------------------------------------------- C6

\* C6: every step that evaluates a world evaluates a world not evaluated
\* before and adds its p, for every individual, to the gene cell of that
\* individual's gene count and to the trait cell of that individual's trait in
\* the world, leaving every other cell as it was; between loading and
\* normalize no other step touches the tables.
C6_UpdateOncePerWorld ==
    [][/\ calls' # calls =>
             /\ calls' = calls + 1
             /\ world' \notin seen
             /\ DOMAIN probabilities' = DOMAIN probabilities
             /\ \A person \in DOMAIN probabilities :
                   /\ \A g \in 0..2 :
                         IF g = GeneCount(world', person)
                         THEN RatEq(probabilities'[person].gene[g],
                                    RatAdd(probabilities[person].gene[g], p'))
                         ELSE probabilities'[person].gene[g] = probabilities[person].gene[g]
                   /\ \A b \in {True, False} :
                         IF b = In(person, world'.have_trait)
                         THEN RatEq(probabilities'[person].trait[b],
                                    RatAdd(probabilities[person].trait[b], p'))
                         ELSE probabilities'[person].trait[b] = probabilities[person].trait[b]
       /\ (calls' = calls /\ Loaded /\ ~BeforeNormalize) =>
             probabilities' = probabilities]_vars

\* Two people, fifth world: the first person has one copy for the first time,
\* so their cell for one copy holds exactly this world's p, and the other
\* person's cell for one copy is still zero.
C6_Witness ==
    /\ calls = 5
    /\ Cardinality(names) = 2
    /\ \E person \in world.one_gene :
          /\ RatEq(probabilities[person].gene[1], p)
          /\ RatLess(p, probabilities[person].gene[0])
          /\ RatPos(probabilities[person].gene[2])
    /\ \E person \in names \ world.one_gene : probabilities[person].gene[1] = RatZero

\* ---------------------------------------------------------------------- C7

\* Some individual has exactly one of mother / father, or names a parent that
\* is no individual of the population
Malformed(ppl) == ~WellFormedParents(ppl)

\* C7: a malformed population is rejected before any world's joint
\* probability is computed or accumulated, and no distribution is output.
C7_MalformedRejected ==
    Malformed(load_data(rows)) =>
        /\ calls = 0
        /\ ~Normalized
        /\ output = << >>

\* ---------------------------------------------------------------------- C8

\* normalize on its own, applied to arbitrary accumulated tables of one person.
CellValues == {RatZero, Rat(1, 100), Rat(3, 100)}

InitNormalize ==
    /\ rows = <<[name |-> NameList[1], mother |-> Blank, father |-> Blank, trait |-> Blank]>>
    /\ people = load_data(rows)
    /\ probabilities \in [DOMAIN people -> [gene : [0..2 -> CellValues],
                                            trait : [{True, False} -> CellValues]]]
    /\ pc = "normalize"
    /\ i = 1 /\ j = 1 /\ k = 1
    /\ world = NoWorld
    /\ p = RatZero
    /\ calls = 0
    /\ seen = {}
    /\ output = << >>
    /\ total = RatZero
    /\ order = row_order(DOMAIN people)
    /\ run = 1
    /\ first = << >>
    /\ NoGame

\* normalize(probabilities) returns
NormalizeTables ==
    /\ pc = "normalize"
    /\ probabilities' = normalize(probabilities)
    /\ pc' = "normalized"
    /\ UNCHANGED <<game_vars, order, run, first, total, rows, people, i, j, k, world, p, calls, seen, output>>

SpecNormalize == InitNormalize /\ [][NormalizeTables]_vars

\* C8: normalize does not return silently with a distribution that does not
\* sum to 1: a zero sum is surfaced as an error instead.
C8_ZeroSumSurfaced ==
    pc = "normalized" =>
        \A person \in DOMAIN probabilities :
            /\ RatEq(gene_total(probabilities, person), RatOne)
            /\ RatEq(trait_total(probabilities, person), RatOne)

\* ---------------------------------------------------------------------- C9

SingleFounderRows ==
    /\ Len(rows) = 1
    /\ rows[1].mother = Blank
    /\ rows[1].father = Blank
    /\ rows[1].trait = Blank

HasParents(ppl, x) == ppl[x].mother # None \/ ppl[x].father # None

IsParent(ppl, x) == \E y \in DOMAIN ppl : x \in ParentsOf(ppl, y)

\* Two founders without children
UnrelatedFounders(ppl, a, b) ==
    /\ ~HasParents(ppl, a) /\ ~HasParents(ppl, b)
    /\ ~IsParent(ppl, a) /\ ~IsParent(ppl, b)

\* Two children of the same parents, without children
ChildlessSiblings(ppl, a, b) ==
    /\ HasParents(ppl, a)
    /\ ppl[a].mother = ppl[b].mother
    /\ ppl[a].father = ppl[b].father
    /\ ~IsParent(ppl, a) /\ ~IsParent(ppl, b)

Interchangeable(ppl, a, b) ==
    /\ a # b
    /\ UnrelatedFounders(ppl, a, b) \/ ChildlessSiblings(ppl, a, b)
    /\ ppl[a].trait = ppl[b].trait

SwapIn(s, a, b) ==
    {IF x = a THEN b ELSE IF x = b THEN a ELSE x : x \in s}

\* C10: for two unrelated individuals of identical observed trait (two
\* childless founders, or two childless children of the same parents),
\* swapping them in one_gene, two_genes and have_trait leaves
\* joint_probability unchanged, and their final normalized distributions are
\* equal.
C10_SwapSymmetry ==
    \A a, b \in names :
        Interchangeable(people, a, b) =>
            /\ calls > 0 =>
                  RatEq(joint_probability(people, SwapIn(world.one_gene, a, b),
                                          SwapIn(world.two_genes, a, b),
                                          SwapIn(world.have_trait, a, b)), p)
            /\ Normalized =>
                  /\ \A g \in 0..2 :
                        RatEq(probabilities[a].gene[g], probabilities[b].gene[g])
                  /\ \A t \in {True, False} :
                        RatEq(probabilities[a].trait[t], probabilities[b].trait[t])

\* Two siblings of unknown trait whose parents have different observed
\* traits: a world that the swap changes was evaluated.
C10_Witness ==
    /\ calls > 0
    /\ \E a, b \in names :
          /\ Interchangeable(people, a, b)
          /\ ChildlessSiblings(people, a, b)
          /\ people[people[a].mother].trait # people[people[a].father].trait
          /\ a \in world.one_gene /\ b \in world.two_genes
          /\ a \in world.have_trait /\ b \notin world.have_trait

\* Two childless founders of the same observed trait, beside a third person,
\* have been given equal distributions.
C10_WitnessFounders ==
    /\ pc = "done"
    /\ \E a, b \in names :
          /\ Interchangeable(people, a, b)
          /\ UnrelatedFounders(people, a, b)
          /\ people[a].trait = True
          /\ names \ {a, b} # {}
          /\ probabilities[a] = probabilities[b]

\* --------------------------------------------------------------------- C13

\* The enumeration is under way or has just ended: main has loaded the file
\* and has not called normalize.
Enumerating == pc \in {"have_trait", "genes"}

\* C13: at every point of the enumeration, before normalize, every
\* individual's three gene cells and every individual's two trait cells each
\* sum to the same value, the total of the probabilities p of all the worlds
\* accumulated so far.
C13_CellsSumToTotal ==
    Enumerating =>
        \A person \in DOMAIN probabilities :
            /\ RatEq(gene_total(probabilities, person), total)
            /\ RatEq(trait_total(probabilities, person), total)

\* In the middle of the enumeration of a family with a child, several worlds
\* have been accumulated and one person's mass lies in all three gene cells
\* and in both trait cells.
C13_Witness ==
    /\ pc = "genes"
    /\ calls >= 3
    /\ RatPos(total)
    /\ \E x \in names : HasParents(people, x)
    /\ \E person \in names :
          /\ \A g \in 0..2 : RatPos(probabilities[person].gene[g])
          /\ \A b \in {True, False} : RatPos(probabilities[person].trait[b])

\* --------------------------------------------------------------------- C14

not(b) == IF b = True THEN False ELSE True

\* C14: for every individual whose trait is observed, the trait cell of the
\* opposite value stays 0 throughout the enumeration, and after normalize the
\* individual's trait distribution gives 1 to the observed value and 0 to the
\* other.
C14_ObservedTraitCertain ==
    Loaded =>
        \A person \in Observed(people) :
            LET observed == people[person].trait
            IN  /\ ~RatPos(probabilities[person].trait[not(observed)])
                /\ Normalized =>
                      RatEq(probabilities[person].trait[observed], RatOne)

\* normalize has run for a population in which one person is observed to
\* have the trait, another not to have it and a third is not observed, and
\* worlds of several trait assignments were accumulated.
C14_Witness ==
    /\ Normalized
    /\ \E a, b, c \in names :
          /\ people[a].trait = True
          /\ people[b].trait = False
          /\ people[c].trait = None
          /\ RatPos(probabilities[c].trait[True])
          /\ RatPos(probabilities[c].trait[False])
          /\ RatEq(probabilities[a].trait[True], RatOne)
          /\ RatEq(probabilities[b].trait[False], RatOne)

\* --------------------------------------------------------------------- C11

\* |a - b| * 2^e <= 1e-9, for e <= 0
close_at(a, b, e) ==
    ~BigLess(BigShl(BigOne, 0 - e),
             BigMul(IF BigLess(a, b) THEN BigSub(b, a) ELSE BigSub(a, b),
                    BigOfInt(1000000000)))

\* |x - y| <= 1e-9, for floats x, y < 2^52
float_close(x, y) ==
    IF x.m = BigZero THEN close_at(BigZero, y.m, y.e)
    ELSE IF y.m = BigZero THEN close_at(x.m, BigZero, x.e)
    ELSE close_at(BigShl(x.m, x.e - Min(x.e, y.e)), BigShl(y.m, y.e - Min(x.e, y.e)),
                  Min(x.e, y.e))

\* normalize has returned in the second run
SecondNormalized == run = 2 /\ Normalized

\* C11 as stated: two runs on the same input yield identical distributions
\* for every individual, whatever the orders in which powerset yields the
\* subsets and the individuals are iterated.
C11_IdenticalDistributions ==
    SecondNormalized => probabilities = first.probabilities

\* C11, amended: two runs on the same input yield distributions that agree
\* in every cell to within 1e-9, and print the same four-decimal values,
\* whatever the orders in which powerset yields the subsets and the
\* individuals are iterated.
C11_SameUpToRounding ==
    SecondNormalized =>
        /\ \A person \in names :
              /\ \A g \in 0..2 :
                    float_close(probabilities[person].gene[g],
                                first.probabilities[person].gene[g])
              /\ \A b \in {True, False} :
                    float_close(probabilities[person].trait[b],
                                first.probabilities[person].trait[b])
        /\ pc = "done" => output = first.output

\* A second run that iterated sets in another order than the first has
\* printed its results; its tables differ from the first run's in some cell
\* of a child.
C11_Witness ==
    /\ run = 2
    /\ pc = "done"
    /\ order # row_order(names)
    /\ \E person \in names :
          /\ HasParents(people, person)
          /\ probabilities[person] # first.probabilities[person]

\* --------------------------------------------------------------------- C12

\* The game by its rules, without the program's functions: the cells, the
\* eight lines, who has three in a line, who is to move, the game value.
Cells == (0..2) \X (0..2)

Lines ==
    {{<<r, 0>>, <<r, 1>>, <<r, 2>>} : r \in 0..2}
    \cup {{<<0, c>>, <<1, c>>, <<2, c>>} : c \in 0..2}
    \cup {{<<0, 0>>, <<1, 1>>, <<2, 2>>}, {<<0, 2>>, <<1, 1>>, <<2, 0>>}}

Marked(b, mark) == {cell \in Cells : b[cell[1]][cell[2]] = mark}

Won(b, mark) == \E line \in Lines : line \subseteq Marked(b, mark)

GameOver(b) == Won(b, X) \/ Won(b, O) \/ Marked(b, EMPTY) = {}

ToMove(b) == IF Cardinality(Marked(b, X)) = Cardinality(Marked(b, O)) THEN X ELSE O

Place(b, cell) == [b EXCEPT ![cell[1]][cell[2]] = ToMove(b)]

\* X can make the game end with at least v (1: X wins, 0: a draw, -1: O
\* wins), whatever O plays
RECURSIVE XCanForce(_, _)
XCanForce(b, v) ==
    IF Won(b, X) THEN 1 >= v
    ELSE IF Won(b, O) THEN 0 - 1 >= v
    ELSE IF Marked(b, EMPTY) = {} THEN 0 >= v
    ELSE IF ToMove(b) = X
    THEN \E cell \in Marked(b, EMPTY) : XCanForce(Place(b, cell), v)
    ELSE \A cell \in Marked(b, EMPTY) : XCanForce(Place(b, cell), v)

\* The game value of the board: the most X can force, which is also the
\* least O can force
GameValue(b) == IF XCanForce(b, 1) THEN 1 ELSE IF XCanForce(b, 0) THEN 0 ELSE 0 - 1

\* minimax has returned best for the board
Thought == gpc = "move"

\* C12: on every board reachable from initial_state() by legal alternating
\* play, minimax returns None if and only if the game is over, and otherwise
\* an empty cell whose board has the best game value the player to move can
\* achieve: the highest for X, the lowest for O.
C12_MinimaxOptimal ==
    Thought =>
        /\ best = None <=> GameOver(board)
        /\ best # None =>
              /\ best \in Marked(board, EMPTY)
              /\ GameValue(Place(board, best)) = GameValue(board)

\* minimax has returned a move for O on a board where O has a move that
\* wins and a move that does not.
C12_Witness ==
    /\ Thought
    /\ best \in actions(board)
    /\ player(board) = O
    /\ GameValue(board) = 0 - 1
    /\ \E cell \in Marked(board, EMPTY) : GameValue(Place(board, cell)) > 0 - 1

====
